---- MODULE Spec2Model ----
(***************************************************************************)
(* Model of tools/contrib_to_about.py: the converter that reads            *)
(* CONTRIBUTORS.md, renders soundcraft/contributors.py.new, compares it    *)
(* with soundcraft/contributors.py by hash, and reports, diffs or applies. *)
(*                                                                         *)
(* Text is modelled by TLA+ strings (Len, \o and SubSeq act on them).      *)
(* The file system is a directory (path -> inode, 0 when absent) and a     *)
(* store (inode -> content), so that a file handle keeps writing to its    *)
(* inode after the path has been renamed or unlinked.                      *)
(***************************************************************************)
EXTENDS Integers, Sequences, FiniteSets, TLC

VARIABLES
    dir,        \* path -> inode number, 0 when the path does not exist
    data,       \* inode number -> content of the file
    pr,         \* invocation -> the interpreter state of that process
    runs,       \* how many invocations have been started
    prev,       \* <<>> or <<r>>, r the record of the run that finished last
    target0,    \* history: what the target path held at the start
    overlap     \* history: two invocations have been running at once

vars == <<dir, data, pr, runs, prev, target0, overlap>>

(***************************************************************************)
(* Bounds of the model.                                                    *)
(***************************************************************************)
MaxDocLines == 4
MaxArgs == 2
MaxRuns == 2

(***************************************************************************)
(* String helpers: the str methods the program uses.                       *)
(***************************************************************************)
Char(s, i) == SubSeq(s, i, i)

From(s, i) == IF i > Len(s) THEN "" ELSE SubSeq(s, i, Len(s))

\* str.startswith
startswith(s, prefix) ==
    /\ Len(s) >= Len(prefix)
    /\ SubSeq(s, 1, Len(prefix)) = prefix

\* s[i+1 .. i+Len(lit)] = lit, false when it would run past the end
LitAt(s, i, lit) ==
    /\ i + Len(lit) <= Len(s)
    /\ SubSeq(s, i + 1, i + Len(lit)) = lit

\* no character of s[a..b] is c: the character class [^c]
NoneIs(s, a, b, c) == \A t \in a..b : Char(s, t) # c

\* str.rstrip(chars) for a one-character set
RECURSIVE rstrip(_, _)
rstrip(s, c) ==
    IF Len(s) > 0 /\ Char(s, Len(s)) = c
    THEN rstrip(SubSeq(s, 1, Len(s) - 1), c)
    ELSE s

\* str.lstrip(chars): drops every leading character that is in chars
RECURSIVE lstrip(_, _)
lstrip(s, chars) ==
    IF Len(s) > 0 /\ Char(s, 1) \in chars
    THEN lstrip(From(s, 2), chars)
    ELSE s

\* the longest prefix of s without a newline: what the regex .* consumes
RECURSIVE DotStar(_)
DotStar(s) ==
    IF Len(s) = 0 \/ Char(s, 1) = "\n"
    THEN ""
    ELSE Char(s, 1) \o DotStar(From(s, 2))

Max(S) == CHOOSE x \in S : \A y \in S : y <= x
Min(S) == CHOOSE x \in S : \A y \in S : x <= y

(***************************************************************************)
(* author_format = ^- \[(?P<name>[^]]+)]\(mailto:(?P<email>[^)]+)\)        *)
(*                 (?P<description>.* )                                    *)
(* A match is <<j, k>>: name = line[4..j], email = line[j+10..k].          *)
(* The engine is greedy: the longest name, then the longest email.         *)
(***************************************************************************)
author_format_matches(line) ==
    IF ~ startswith(line, "- [") THEN {}
    ELSE UNION { { <<j, k>> : k \in { k \in (j + 10)..Len(line) :
                                        /\ NoneIs(line, j + 10, k, ")")
                                        /\ LitAt(line, k, ")") } }
                 : j \in { j \in 4..Len(line) :
                             /\ NoneIs(line, 4, j, "]")
                             /\ LitAt(line, j, "](mailto:") } }

author_format_match(line) ==
    LET M == author_format_matches(line) IN
    IF M = {} THEN <<>>
    ELSE LET j == Max({ m[1] : m \in M })
             k == Max({ m[2] : m \in { m \in M : m[1] = j } })
         IN << [ name        |-> SubSeq(line, 4, j),
                 email       |-> SubSeq(line, j + 10, k),
                 description |-> DotStar(From(line, k + 2)) ] >>

(***************************************************************************)
(* link_format = \[(?P<name>[^]]+)]\((?P<url>[^)]+)\), used with search(): *)
(* the leftmost start i, then the longest name, then the longest url.      *)
(* A match is <<i, j, k>>: name = line[i+1..j], url = line[j+3..k].        *)
(***************************************************************************)
link_format_matches(line) ==
    UNION { UNION { { <<i, j, k>> : k \in { k \in (j + 3)..Len(line) :
                                              /\ NoneIs(line, j + 3, k, ")")
                                              /\ LitAt(line, k, ")") } }
                    : j \in { j \in (i + 1)..Len(line) :
                                /\ NoneIs(line, i + 1, j, "]")
                                /\ LitAt(line, j, "](") } }
            : i \in { i \in 1..Len(line) : Char(line, i) = "[" } }

link_format_search(line) ==
    LET M == link_format_matches(line) IN
    IF M = {} THEN <<>>
    ELSE LET i == Min({ m[1] : m \in M })
             j == Max({ m[2] : m \in { m \in M : m[1] = i } })
             k == Max({ m[3] : m \in { m \in M : m[1] = i /\ m[2] = j } })
         IN << [ name |-> SubSeq(line, i + 1, j),
                 url  |-> SubSeq(line, j + 3, k) ] >>

\* parseMarkdown with the two structured rules tried in the wrong order
parseMarkdown_link_first(line) ==
    LET link_match == link_format_search(line)
        author_match == author_format_match(line)
    IN  IF link_match # <<>>
        THEN link_match[1].name \o " " \o link_match[1].url
        ELSE IF author_match # <<>>
        THEN author_match[1].name \o " <" \o author_match[1].email \o ">"
                 \o author_match[1].description
        ELSE lstrip(line, {"-", " "})

parseMarkdown(line) ==
    LET author_match == author_format_match(line) IN
    IF author_match # <<>>
    THEN author_match[1].name \o " <" \o author_match[1].email \o ">"
             \o author_match[1].description
    ELSE LET link_match == link_format_search(line) IN
         IF link_match # <<>>
         THEN link_match[1].name \o " " \o link_match[1].url
         ELSE lstrip(line, {"-", " "})

(***************************************************************************)
(* The parse loop: one iteration over a raw line of CONTRIBUTORS.md.       *)
(* contributors is a function from section names to lists; section is      *)
(* <<>> for None and <<name>> otherwise.  A bullet under a section that is  *)
(* no key of contributors raises KeyError.                                 *)
(***************************************************************************)
\* the file iterator: the lines of a text, each with its newline
RECURSIVE readlines(_)
readlines(s) ==
    IF s = "" THEN <<>>
    ELSE LET nl == { t \in 1..Len(s) : Char(s, t) = "\n" } IN
         IF nl = {} THEN <<s>>
         ELSE <<SubSeq(s, 1, Min(nl))>> \o readlines(From(s, Min(nl) + 1))

\* loop_body with a heading that keeps the list of an earlier occurrence
loop_body_keep_list(contributors, section, rawline) ==
    LET line == rstrip(rawline, "\n") IN
    IF startswith(line, "- ")
    THEN IF section # <<>> /\ section[1] \in DOMAIN contributors
         THEN [ raised |-> "", section |-> section,
                contributors |-> [contributors EXCEPT ![section[1]] =
                                     Append(@, parseMarkdown(line))] ]
         ELSE [ raised |-> "KeyError", section |-> section,
                contributors |-> contributors ]
    ELSE IF startswith(line, "--") \/ Len(line) = 0
    THEN [ raised |-> "", section |-> section, contributors |-> contributors ]
    ELSE [ raised |-> "", section |-> <<line>>,
           contributors |-> contributors @@ (line :> <<>>) ]

loop_body(contributors, section, rawline) ==
    LET line == rstrip(rawline, "\n") IN
    IF startswith(line, "- ")
    THEN IF section # <<>> /\ section[1] \in DOMAIN contributors
         THEN [ raised |-> "", section |-> section,
                contributors |-> [contributors EXCEPT ![section[1]] =
                                     Append(@, parseMarkdown(line))] ]
         ELSE [ raised |-> "KeyError", section |-> section,
                contributors |-> contributors ]
    ELSE IF startswith(line, "--") \/ Len(line) = 0
    THEN [ raised |-> "", section |-> section, contributors |-> contributors ]
    ELSE [ raised |-> "", section |-> <<line>>,
           contributors |-> (line :> <<>>) @@ contributors ]

(***************************************************************************)
(* The renderer.                                                           *)
(***************************************************************************)
source_fname == "CONTRIBUTORS.md"
target_fname == "soundcraft/contributors.py"

\* the staging path set to the target path itself
new_fname_in_place == target_fname

new_fname == target_fname \o ".new"

tool_filebase == "contrib_to_about.py"

Paths == {source_fname, target_fname, new_fname}

\* the text of the first dst.write (a TLA+ string cannot hold a backquote:
\* the two around CONTRIBUTORS.md are written as apostrophes)
header ==
    "\"\"\"\\\n" \o target_fname \o " - autogenerated from CONTRIBUTORS.md\n"
    \o "\n"
    \o "DO NOT EDIT THIS FILE. EDIT 'CONTRIBUTORS.md' INSTEAD\n"
    \o "and update this file by re-running " \o tool_filebase \o ".\n"
    \o "\"\"\"\n"
    \o "\n"

RECURSIVE people_lines(_)
people_lines(people_list) ==
    IF people_list = <<>> THEN ""
    ELSE "    \"" \o Head(people_list) \o "\",\n" \o people_lines(Tail(people_list))

\* write_people that renders a one-element list like a longer one
write_people_no_inline(people_group, people_list) ==
    IF Len(people_list) = 0
    THEN people_group \o " = []\n"
    ELSE people_group \o " = [\n" \o people_lines(people_list) \o "]\n"

\* the text write_people(file, people_group, people_list) writes to file
write_people(people_group, people_list) ==
    IF Len(people_list) = 0
    THEN people_group \o " = []\n"
    ELSE IF Len(people_list) = 1
    THEN people_group \o " = [\"" \o people_list[1] \o "\"]\n"
    ELSE people_group \o " = [\n" \o people_lines(people_list) \o "]\n"

(***************************************************************************)
(* The command line.                                                       *)
(***************************************************************************)
\* parse_command_line with an unknown argument skipped instead of refused
RECURSIVE parse_command_line_lenient(_, _, _)
parse_command_line_lenient(args, flag_check, flag_diff) ==
    IF args = <<>>
    THEN [ status |-> "ok", flag_check |-> flag_check, flag_diff |-> flag_diff ]
    ELSE IF Head(args) = "--check"
    THEN parse_command_line_lenient(Tail(args), TRUE, flag_diff)
    ELSE IF Head(args) = "--diff"
    THEN parse_command_line_lenient(Tail(args), flag_check, TRUE)
    ELSE IF Head(args) = "--help"
    THEN [ status |-> "help", flag_check |-> flag_check, flag_diff |-> flag_diff ]
    ELSE parse_command_line_lenient(Tail(args), flag_check, flag_diff)

\* the loop over sys.argv[1:]: "ok" when it ends, "help" at sys.exit(0),
\* "ValueError" at the raise
RECURSIVE parse_command_line(_, _, _)
parse_command_line(args, flag_check, flag_diff) ==
    IF args = <<>>
    THEN [ status |-> "ok", flag_check |-> flag_check, flag_diff |-> flag_diff ]
    ELSE IF Head(args) = "--check"
    THEN parse_command_line(Tail(args), TRUE, flag_diff)
    ELSE IF Head(args) = "--diff"
    THEN parse_command_line(Tail(args), flag_check, TRUE)
    ELSE IF Head(args) = "--help"
    THEN [ status |-> "help", flag_check |-> flag_check, flag_diff |-> flag_diff ]
    ELSE [ status |-> "ValueError", flag_check |-> flag_check,
           flag_diff |-> flag_diff ]

(***************************************************************************)
(* Hashing.  A value is [type, val]: type "bytes" for a digest and "str"   *)
(* for the string of the except branch.  SHA-256 is taken to be free of    *)
(* collisions: the digest of a content is that content under a tag.        *)
(***************************************************************************)
sha256(content) == "sha256:" \o content

NoHash == [ type |-> "NoneType", val |-> "" ]

\* file_hash(filename), on the file system as it is now
file_hash(filename) ==
    IF dir[filename] # 0
    THEN [ type |-> "bytes", val |-> sha256(data[dir[filename]]) ]
    ELSE [ type |-> "str", val |-> "file not found ({filename})" ]

\* == that never holds
hash_eq_never(a, b) == FALSE

\* Python's ==: a bytes object never equals a str
hash_eq(a, b) == a.type = b.type /\ a.val = b.val

(***************************************************************************)
(* The branch taken after the two hashes: the file operation on new_fname, *)
(* the name of the outcome and the argument of sys.exit.                   *)
(***************************************************************************)
\* decide with --check applying the change
decide_check_applies(hash_new, hash_target, flag_diff, flag_check) ==
    IF hash_eq(hash_new, hash_target)
    THEN [ op |-> "unlink", outcome |-> "no changes", exit |-> 0 ]
    ELSE IF flag_diff
    THEN [ op |-> "unlink", outcome |-> "diff", exit |-> 1 ]
    ELSE IF flag_check
    THEN [ op |-> "rename", outcome |-> "check", exit |-> 1 ]
    ELSE [ op |-> "rename", outcome |-> "apply", exit |-> 0 ]

\* decide with --check reporting success
decide_check_exit0(hash_new, hash_target, flag_diff, flag_check) ==
    IF hash_eq(hash_new, hash_target)
    THEN [ op |-> "unlink", outcome |-> "no changes", exit |-> 0 ]
    ELSE IF flag_diff
    THEN [ op |-> "unlink", outcome |-> "diff", exit |-> 1 ]
    ELSE IF flag_check
    THEN [ op |-> "unlink", outcome |-> "check", exit |-> 0 ]
    ELSE [ op |-> "rename", outcome |-> "apply", exit |-> 0 ]

\* decide with the apply branch dropping the staged file
decide_apply_unlinks(hash_new, hash_target, flag_diff, flag_check) ==
    IF hash_eq(hash_new, hash_target)
    THEN [ op |-> "unlink", outcome |-> "no changes", exit |-> 0 ]
    ELSE IF flag_diff
    THEN [ op |-> "unlink", outcome |-> "diff", exit |-> 1 ]
    ELSE IF flag_check
    THEN [ op |-> "unlink", outcome |-> "check", exit |-> 1 ]
    ELSE [ op |-> "unlink", outcome |-> "apply", exit |-> 0 ]

\* decide with the diff branch leaving the staged file behind
decide_diff_keeps(hash_new, hash_target, flag_diff, flag_check) ==
    IF hash_eq(hash_new, hash_target)
    THEN [ op |-> "unlink", outcome |-> "no changes", exit |-> 0 ]
    ELSE IF flag_diff
    THEN [ op |-> "none", outcome |-> "diff", exit |-> 1 ]
    ELSE IF flag_check
    THEN [ op |-> "unlink", outcome |-> "check", exit |-> 1 ]
    ELSE [ op |-> "rename", outcome |-> "apply", exit |-> 0 ]

decide(hash_new, hash_target, flag_diff, flag_check) ==
    IF hash_eq(hash_new, hash_target)
    THEN [ op |-> "unlink", outcome |-> "no changes", exit |-> 0 ]
    ELSE IF flag_diff
    THEN [ op |-> "unlink", outcome |-> "diff", exit |-> 1 ]
    ELSE IF flag_check
    THEN [ op |-> "unlink", outcome |-> "check", exit |-> 1 ]
    ELSE [ op |-> "rename", outcome |-> "apply", exit |-> 0 ]

(***************************************************************************)
(* Processes.  Each invocation of the tool is a process; pc is its place   *)
(* in the script.  fd is the inode the staging handle dst is open on (0    *)
(* when closed) and buf what dst.write has buffered and not yet written.   *)
(* io lists the file operations the run has made.                          *)
(***************************************************************************)
Procs == {1, 2}

Inodes == 1..(Cardinality(Paths) + Cardinality(Procs))

NewProc(pc) ==
    [ pc |-> pc, args |-> <<>>, flag_check |-> FALSE, flag_diff |-> FALSE,
      lines |-> <<>>, contributors |-> <<>>, section |-> <<>>,
      fd |-> 0, buf |-> "", hash_new |-> NoHash, hash_target |-> NoHash,
      exit |-> -1, outcome |-> "", io |-> <<>> ]

Running(q) == pr[q].pc \notin {"off", "idle", "done"}

\* sys.exit(code), or the interpreter ending on an uncaught exception (1)
Exit(s, code, outcome) ==
    [s EXCEPT !.pc = "done", !.exit = code, !.outcome = outcome]

Did(s, what) == [s EXCEPT !.io = Append(@, what)]

\* what another process sees at the target path: <<>> or <<content>>
Observed(path) == IF dir[path] = 0 THEN <<>> ELSE <<data[dir[path]]>>

\* the store with the content of unreferenced inodes dropped
Collect(d, procs, store) ==
    [ i \in Inodes |->
        IF (\E f \in Paths : d[f] = i) \/ (\E q \in Procs : procs[q].fd = i)
        THEN store[i] ELSE "" ]

FreshInode ==
    Min({ i \in Inodes : /\ \A f \in Paths : dir[f] # i
                         /\ \A q \in Procs : pr[q].fd # i })

\* os.unlink(path) on a directory d, path existing
unlink(d, path) == [d EXCEPT ![path] = 0]

\* os.rename(src, dst) on a directory d, src existing
rename(d, src, dst) ==
    IF src = dst THEN d ELSE [d EXCEPT ![dst] = d[src], ![src] = 0]

(***************************************************************************)
(* The steps of one run.                                                   *)
(***************************************************************************)
\* the shell starts the tool with an argument list from Argvs
Start(p, Argvs) ==
    /\ pr[p].pc = "idle"
    /\ runs < MaxRuns
    /\ \E args \in Argvs :
          pr' = [pr EXCEPT ![p] = [NewProc("args") EXCEPT !.args = args]]
    /\ runs' = runs + 1
    /\ overlap' = (overlap \/ \E q \in Procs \ {p} : Running(q))
    /\ UNCHANGED <<dir, data, prev, target0>>

ParseCommandLine(p) ==
    /\ pr[p].pc = "args"
    /\ LET r == parse_command_line(pr[p].args, FALSE, FALSE) IN
       pr' = [pr EXCEPT ![p] =
                IF r.status = "ok"
                THEN [@ EXCEPT !.pc = "open_src",
                               !.flag_check = r.flag_check,
                               !.flag_diff = r.flag_diff]
                ELSE IF r.status = "help"
                THEN Exit(@, 0, "help")
                ELSE Exit(@, 1, "ValueError")]
    /\ UNCHANGED <<dir, data, runs, prev, target0, overlap>>

\* with open("CONTRIBUTORS.md") as contrib, up to the first iteration
OpenSource(p) ==
    /\ pr[p].pc = "open_src"
    /\ pr' = [pr EXCEPT ![p] =
                IF dir[source_fname] = 0
                THEN Exit(Did(@, "open source"), 1, "FileNotFoundError")
                ELSE LET ls == readlines(data[dir[source_fname]]) IN
                     Did([@ EXCEPT !.lines = ls,
                                   !.pc = IF ls = <<>> THEN "open_dst" ELSE "loop"],
                         "open source")]
    /\ UNCHANGED <<dir, data, runs, prev, target0, overlap>>

\* one iteration of for line in contrib
ReadLine(p) ==
    /\ pr[p].pc = "loop"
    /\ LET r == loop_body(pr[p].contributors, pr[p].section, Head(pr[p].lines)) IN
       pr' = [pr EXCEPT ![p] =
                IF r.raised # ""
                THEN Exit(@, 1, r.raised)
                ELSE [@ EXCEPT !.contributors = r.contributors,
                               !.section = r.section,
                               !.lines = Tail(@),
                               !.pc = IF Tail(pr[p].lines) = <<>>
                                      THEN "open_dst" ELSE "loop"]]
    /\ UNCHANGED <<dir, data, runs, prev, target0, overlap>>

\* open(new_fname, "w"): creates the file, or truncates the one there
OpenStaging(p) ==
    /\ pr[p].pc = "open_dst"
    /\ LET ino == IF dir[new_fname] = 0 THEN FreshInode ELSE dir[new_fname] IN
       /\ dir' = [dir EXCEPT ![new_fname] = ino]
       /\ data' = [data EXCEPT ![ino] = ""]
       /\ pr' = [pr EXCEPT ![p] =
                   Did([@ EXCEPT !.fd = ino, !.buf = "", !.pc = "write_header"],
                       "open staging")]
    /\ UNCHANGED <<runs, prev, target0, overlap>>

WriteHeader(p) ==
    /\ pr[p].pc = "write_header"
    /\ pr' = [pr EXCEPT ![p] = [@ EXCEPT !.buf = @ \o header,
                                         !.pc = "write_authors"]]
    /\ UNCHANGED <<dir, data, runs, prev, target0, overlap>>

\* write_people(dst, group, contributors[key]); a missing key raises
\* KeyError, and leaving the with block closes dst, which writes the buffer
WritePeople(p, at, group, key, then) ==
    /\ pr[p].pc = at
    /\ LET found == key \in DOMAIN pr[p].contributors
           procs == [pr EXCEPT ![p] =
                       IF found
                       THEN [@ EXCEPT !.buf = @ \o write_people(group,
                                                      pr[p].contributors[key]),
                                      !.pc = then]
                       ELSE Exit([@ EXCEPT !.fd = 0, !.buf = ""], 1, "KeyError")]
       IN /\ pr' = procs
          /\ data' = IF found THEN data
                     ELSE Collect(dir, procs,
                                  [data EXCEPT ![pr[p].fd] = @ \o pr[p].buf])
    /\ UNCHANGED <<dir, runs, prev, target0, overlap>>

WriteAuthors(p) ==
    WritePeople(p, "write_authors", "authors", "Contributors", "write_artists")

WriteArtists(p) ==
    WritePeople(p, "write_artists", "artists", "Artwork", "close")

\* the buffered writer hands what it holds to the file before dst is closed
Flush(p) ==
    /\ pr[p].pc \in {"write_authors", "write_artists", "close"}
    /\ pr[p].buf # ""
    /\ data' = [data EXCEPT ![pr[p].fd] = @ \o pr[p].buf]
    /\ pr' = [pr EXCEPT ![p] = [@ EXCEPT !.buf = ""]]
    /\ UNCHANGED <<dir, runs, prev, target0, overlap>>

\* the end of the with block: the rest of the buffer is written, dst closed
CloseStaging(p) ==
    /\ pr[p].pc = "close"
    /\ LET procs == [pr EXCEPT ![p] =
                       Did([@ EXCEPT !.fd = 0, !.buf = "", !.pc = "hash_new"],
                           "close staging")]
       IN /\ pr' = procs
          /\ data' = Collect(dir, procs,
                             [data EXCEPT ![pr[p].fd] = @ \o pr[p].buf])
    /\ UNCHANGED <<dir, runs, prev, target0, overlap>>

HashNew(p) ==
    /\ pr[p].pc = "hash_new"
    /\ pr' = [pr EXCEPT ![p] =
                Did([@ EXCEPT !.hash_new = file_hash(new_fname),
                              !.pc = "hash_target"], "hash staging")]
    /\ UNCHANGED <<dir, data, runs, prev, target0, overlap>>

HashTarget(p) ==
    /\ pr[p].pc = "hash_target"
    /\ pr' = [pr EXCEPT ![p] =
                Did([@ EXCEPT !.hash_target = file_hash(target_fname),
                              !.pc = "decide"], "hash target")]
    /\ UNCHANGED <<dir, data, runs, prev, target0, overlap>>

\* the if/else after the hashes, with its file operation and sys.exit;
\* the diff branch first runs diff -u on the two files; os.unlink and
\* os.rename raise FileNotFoundError when new_fname is gone
Decide(p) ==
    /\ pr[p].pc = "decide"
    /\ LET b == decide(pr[p].hash_new, pr[p].hash_target,
                       pr[p].flag_diff, pr[p].flag_check)
           gone == b.op # "none" /\ dir[new_fname] = 0
           d == IF gone \/ b.op = "none" THEN dir
                ELSE IF b.op = "unlink" THEN unlink(dir, new_fname)
                ELSE rename(dir, new_fname, target_fname)
           shown == IF b.outcome = "diff" THEN Did(pr[p], "diff") ELSE pr[p]
           procs == [pr EXCEPT ![p] =
                       IF gone THEN Exit(shown, 1, "FileNotFoundError")
                       ELSE IF b.op = "none" THEN Exit(shown, b.exit, b.outcome)
                       ELSE Exit(Did(shown, b.op), b.exit, b.outcome)]
       IN /\ dir' = d
          /\ pr' = procs
          /\ data' = Collect(d, procs, data)
    /\ UNCHANGED <<runs, prev, target0, overlap>>

\* the process is gone; the shell keeps its exit status
Reap(p) ==
    /\ pr[p].pc = "done"
    /\ prev' = << [ default |-> pr[p].args = <<>>,
                    outcome |-> pr[p].outcome,
                    exit    |-> pr[p].exit,
                    target  |-> Observed(target_fname) ] >>
    /\ pr' = [pr EXCEPT ![p] = NewProc("idle")]
    /\ UNCHANGED <<dir, data, runs, target0, overlap>>

Step(p, Argvs) ==
    \/ Start(p, Argvs)
    \/ ParseCommandLine(p)
    \/ OpenSource(p)
    \/ ReadLine(p)
    \/ OpenStaging(p)
    \/ WriteHeader(p)
    \/ WriteAuthors(p)
    \/ WriteArtists(p)
    \/ Flush(p)
    \/ CloseStaging(p)
    \/ HashNew(p)
    \/ HashTarget(p)
    \/ Decide(p)
    \/ Reap(p)

(***************************************************************************)
(* Inputs.                                                                 *)
(***************************************************************************)
\* the texts of at most n lines, each line from Lines and ended by a newline
RECURSIVE Texts(_, _)
Texts(Lines, n) ==
    IF n = 0 THEN {""}
    ELSE {""} \cup { l \o "\n" \o t : l \in Lines, t \in Texts(Lines, n - 1) }

\* the module an earlier run wrote when both sections were empty
OldModule == header \o "authors = []\n" \o "artists = []\n"

\* the file system before the first run: the source (<<>> or <<text>>) and
\* the target (<<>> or <<text>>) are there or not; no staging file
StartFS(source, target) ==
    /\ dir = [ f \in Paths |->
                 IF f = target_fname THEN (IF target = <<>> THEN 0 ELSE 2)
                 ELSE IF f = source_fname THEN (IF source = <<>> THEN 0 ELSE 1)
                 ELSE 0 ]
    /\ data = [ i \in Inodes |->
                 IF i = 1 /\ source # <<>> THEN source[1]
                 ELSE IF i = 2 /\ target # <<>> THEN target[1]
                 ELSE "" ]
    /\ target0 = target
    /\ runs = 0
    /\ prev = <<>>
    /\ overlap = FALSE

DriverLines == {"Contributors", "Artwork", "- Bob"}

\* argument lists of the sequential runs
RunArgvs ==
    { <<>>, <<"--check">>, <<"--diff">>, <<"--check", "--diff">>,
      <<"--diff", "--check">>, <<"--help">>, <<"--check", "--verbose">> }

(***************************************************************************)
(* Spec: one invoker runs the tool up to MaxRuns times, one run after the  *)
(* other, on a source that does not change.                                *)
(***************************************************************************)
Init ==
    /\ \E source \in {<<>>} \cup { <<t>> : t \in Texts(DriverLines, MaxDocLines) } :
       \E target \in {<<>>, <<OldModule>>} :
          StartFS(source, target)
    /\ pr = [ p \in Procs |-> IF p = 1 THEN NewProc("idle") ELSE NewProc("off") ]

Next == \E p \in Procs : Step(p, RunArgvs)

Spec == Init /\ [][Next]_vars

(***************************************************************************)
(* ParseSpec: the run up to the end of the parse loop, on a wider set of   *)
(* documents: every text of at most MaxDocLines lines of ParseLines, and   *)
(* a heading followed by one bullet line of BulletLines.                   *)
(***************************************************************************)
ParseLines ==
    { "Contributors", "Artwork", "- Bob", "- [Ann](mailto:a@b.c) dev",
      "---", "", "-x" }

BulletLines ==
    { "- " \o pre \o lb \o name \o rb \o lp \o scheme \o addr \o rp \o rest :
        pre \in {"", "x ", "- "},
        lb \in {"[", ""},
        name \in {"N", "", "A[B"},
        rb \in {"]", ""},
        lp \in {"(", ""},
        scheme \in {"mailto:", "http://", ""},
        addr \in {"a@b.c", ""},
        rp \in {")", ""},
        rest \in {"", " extra text", " [L](u)"} }
    \cup { "- [Name](mailto:a@b.c) extra text", "- Just text",
           "- [Name](http://example.com)" }

ParseInit ==
    /\ \E t \in Texts(ParseLines, MaxDocLines)
               \cup { "Contributors\n" \o b \o "\n" : b \in BulletLines } :
          StartFS(<<t>>, <<>>)
    /\ pr = [ p \in Procs |-> IF p = 1 THEN NewProc("idle") ELSE NewProc("off") ]

ParseNext ==
    \E p \in Procs :
        \/ Start(p, {<<>>})
        \/ ParseCommandLine(p)
        \/ OpenSource(p)
        \/ ReadLine(p)

ParseSpec == ParseInit /\ [][ParseNext]_vars

(***************************************************************************)
(* ArgSpec: runs with every argument list of at most MaxArgs arguments.    *)
(***************************************************************************)
Argv == {"--check", "--diff", "--help", "--verbose"}

ArgLists == UNION { [1..n -> Argv] : n \in 0..MaxArgs }

ArgInit ==
    /\ \E source \in {<<>>, <<"Contributors\n- Bob\nArtwork\n">>} :
       \E target \in {<<>>, <<OldModule>>} :
          StartFS(source, target)
    /\ pr = [ p \in Procs |-> IF p = 1 THEN NewProc("idle") ELSE NewProc("off") ]

ArgNext == \E p \in Procs : Step(p, ArgLists)

ArgSpec == ArgInit /\ [][ArgNext]_vars

(***************************************************************************)
(* ConcSpec: two invokers; their runs may overlap.                         *)
(***************************************************************************)
ConcArgvs == { <<>>, <<"--check">> }

ConcInit ==
    /\ \E source \in { <<"Contributors\n- Bob\nArtwork\n">>,
                       <<"Contributors\n- Bob\n">> } :
       \E target \in {<<>>, <<OldModule>>} :
          StartFS(source, target)
    /\ pr = [ p \in Procs |-> NewProc("idle") ]

ConcNext == \E p \in Procs : Step(p, ConcArgvs)

ConcSpec == ConcInit /\ [][ConcNext]_vars

(***************************************************************************)
(* Vocabulary of the properties.                                           *)
(***************************************************************************)
Range(seq) == { seq[i] : i \in DOMAIN seq }

\* the lines of a text without their newlines
DocLines(text) ==
    LET raw == readlines(text) IN [ i \in DOMAIN raw |-> rstrip(raw[i], "\n") ]

IsBullet(l) == startswith(l, "- ")

IsHeading(l) == l # "" /\ ~ startswith(l, "- ") /\ ~ startswith(l, "--")

HeadingsOf(L) == { i \in DOMAIN L : IsHeading(L[i]) }

\* no bullet line comes before the first heading
NoEarlyBullet(L) ==
    \A i \in DOMAIN L : IsBullet(L[i]) => \E h \in HeadingsOf(L) : h < i

\* the elements of a set of indices in increasing order
Ascending(B) ==
    [ n \in 1..Cardinality(B) |->
        CHOOSE i \in B : Cardinality({ j \in B : j <= i }) = n ]

\* the normalized bullet lines between heading h and the next heading
EntriesAfter(L, h) ==
    LET nxt == Min({ i \in HeadingsOf(L) : i > h } \cup {Len(L) + 1})
        B == Ascending({ i \in (h + 1)..(nxt - 1) : IsBullet(L[i]) })
    IN  [ n \in DOMAIN B |-> parseMarkdown(L[B[n]]) ]

LastOccurrence(L, name) == Max({ i \in DOMAIN L : L[i] = name })

\* the section mapping the claims describe for the lines L
ExpectedSections(L) ==
    [ name \in { L[h] : h \in HeadingsOf(L) } |->
        EntriesAfter(L, LastOccurrence(L, name)) ]

\* the complete output for a text that has both required sections
Rendered(text) ==
    LET sections == ExpectedSections(DocLines(text)) IN
    header \o write_people("authors", sections["Contributors"])
           \o write_people("artists", sections["Artwork"])

HasBothSections(text) ==
    {"Contributors", "Artwork"} \subseteq Range(DocLines(text))

SourceThere == dir[source_fname] # 0

SourceText == data[dir[source_fname]]

\* the run of process p was started with --check or --diff
ReportOnly(p) == "--check" \in Range(pr[p].args) \/ "--diff" \in Range(pr[p].args)

\* the run of process p is over and had compared the two hashes
Compared(p) == pr[p].pc = "done" /\ pr[p].hash_target # NoHash

\* what the target path held when the current run of Spec started
TargetAtStart == IF prev = <<>> THEN target0 ELSE prev[1].target

TerminalOps(p) == { i \in DOMAIN pr[p].io : pr[p].io[i] \in {"unlink", "rename"} }

(***************************************************************************)
(* C1.  A run started with --check or --diff (either or both) never        *)
(* creates, modifies, replaces or deletes the target file: every step of   *)
(* such a run leaves the target path on the same inode with the same       *)
(* content.                                                                *)
(***************************************************************************)
C1_ReportOnlyKeepsTarget ==
    [][ \A p \in Procs :
            (pr[p].pc \notin {"off", "idle"} /\ ReportOnly(p))
            => /\ dir'[target_fname] = dir[target_fname]
               /\ Observed(target_fname)' = Observed(target_fname) ]_vars

\* a --check run found a difference and ended, the absent target still absent
C1_Witness ==
    /\ pr[1].pc = "done"
    /\ pr[1].args = <<"--check">>
    /\ pr[1].outcome = "check"
    /\ target0 = <<>>
    /\ dir[target_fname] = 0

(***************************************************************************)
(* C2.  A run that reached the hash comparison exits 0 when the hashes     *)
(* match, 0 when they differ and neither --check nor --diff was given,     *)
(* and 1 when they differ and one of them was given; with both given the    *)
(* diff branch is the one taken.                                           *)
(***************************************************************************)
C2_ExitCodes ==
    \A p \in Procs :
        Compared(p) =>
            /\ pr[p].exit = IF pr[p].hash_new = pr[p].hash_target THEN 0
                            ELSE IF ReportOnly(p) THEN 1 ELSE 0
            /\ ( /\ pr[p].hash_new # pr[p].hash_target
                 /\ "--check" \in Range(pr[p].args)
                 /\ "--diff" \in Range(pr[p].args) )
               => pr[p].outcome = "diff"

\* both flags given, a difference found: the diff branch, exit 1
C2_Witness ==
    /\ Compared(1)
    /\ pr[1].args = <<"--check", "--diff">>
    /\ pr[1].hash_new # pr[1].hash_target
    /\ pr[1].outcome = "diff"
    /\ pr[1].exit = 1

(***************************************************************************)
(* C3.  As claimed: for any source document, whenever default mode is run  *)
(* twice in succession, the second run takes the no-changes branch (exit   *)
(* 0, no rename) and leaves the target as the first run left it.  Stated   *)
(* here for the documents in which no bullet line precedes the first       *)
(* heading, which is enough to refute it.                                  *)
(***************************************************************************)
SecondDefaultRunOver ==
    /\ SourceThere
    /\ pr[1].pc = "done"
    /\ pr[1].args = <<>>
    /\ prev # <<>>
    /\ prev[1].default

NoChangesRun ==
    /\ pr[1].outcome = "no changes"
    /\ pr[1].exit = 0
    /\ "rename" \notin Range(pr[1].io)

C3_AsClaimed ==
    (SecondDefaultRunOver /\ NoEarlyBullet(DocLines(SourceText)))
    => NoChangesRun /\ Observed(target_fname) = prev[1].target

(***************************************************************************)
(* C3, amended.  For any source document, whenever default mode is run     *)
(* twice in succession, the target after the second run is what it was     *)
(* after the first; and if the first run reached the hash comparison, the  *)
(* second takes the no-changes branch (exit 0, no rename).                 *)
(***************************************************************************)
C3_Idempotent ==
    SecondDefaultRunOver
    => /\ Observed(target_fname) = prev[1].target
       /\ prev[1].outcome \in {"apply", "no changes"} => NoChangesRun

\* the first run applied a change, the second found none
C3_Witness ==
    /\ SecondDefaultRunOver
    /\ prev[1].outcome = "apply"
    /\ pr[1].outcome = "no changes"
    /\ Observed(target_fname) = prev[1].target

(***************************************************************************)
(* C4.  As claimed: in every reachable state, also with two invocations    *)
(* running at once, the target path holds what it held at the start or a   *)
(* completely rendered output.                                             *)
(***************************************************************************)
TargetIntact ==
    \/ Observed(target_fname) = target0
    \/ SourceThere /\ HasBothSections(SourceText)
       /\ Observed(target_fname) = <<Rendered(SourceText)>>

C4_AsClaimed == TargetIntact

(***************************************************************************)
(* C4, amended.  As long as no two invocations have been running at the    *)
(* same time, the target path holds what it held at the start or a         *)
(* completely rendered output.                                             *)
(***************************************************************************)
C4_AtomicWhenAlone == ~ overlap => TargetIntact

\* a run that was never overlapped replaced the target by the full output
C4_Witness ==
    /\ ~ overlap
    /\ \E p \in Procs : pr[p].pc = "done" /\ pr[p].outcome = "apply"
    /\ Observed(target_fname) # target0
    /\ Observed(target_fname) = <<Rendered(SourceText)>>

(***************************************************************************)
(* C5.  As claimed: a default-mode run that starts with the target absent  *)
(* and a source that has both required sections ends with the target       *)
(* holding exactly the rendered output of the source.                      *)
(***************************************************************************)
FreshDefaultRunOver ==
    /\ pr[1].pc = "done"
    /\ pr[1].args = <<>>
    /\ TargetAtStart = <<>>
    /\ SourceThere
    /\ HasBothSections(SourceText)

C5_AsClaimed ==
    FreshDefaultRunOver => Observed(target_fname) = <<Rendered(SourceText)>>

(***************************************************************************)
(* C5, amended.  The same, for a source in which no bullet line comes      *)
(* before the first heading.                                               *)
(***************************************************************************)
C5_CreatesTarget ==
    (FreshDefaultRunOver /\ NoEarlyBullet(DocLines(SourceText)))
    => Observed(target_fname) = <<Rendered(SourceText)>>

\* the target was created with a one-element authors list
C5_Witness ==
    /\ FreshDefaultRunOver
    /\ NoEarlyBullet(DocLines(SourceText))
    /\ pr[1].outcome = "apply"
    /\ pr[1].contributors["Contributors"] = <<"Bob">>
    /\ Observed(target_fname) = <<Rendered(SourceText)>>

(***************************************************************************)
(* C6.  As claimed: the value file_hash returns for a missing file differs *)
(* from the digest of every existing file and from the value it returns    *)
(* for any other missing file name.                                        *)
(***************************************************************************)
C6_SentinelAsClaimed ==
    \A f \in Paths :
        dir[f] = 0 =>
            /\ \A g \in Paths : dir[g] # 0 => ~ hash_eq(file_hash(f), file_hash(g))
            /\ \A g \in Paths \ {f} :
                   dir[g] = 0 => ~ hash_eq(file_hash(f), file_hash(g))

(***************************************************************************)
(* C7.  The entry the loop appends for a bullet line follows the rule      *)
(* list: a line "- [Name](mailto:Addr)Rest" gives "Name <Addr>Rest"; else  *)
(* a line that contains "[Name](Url)" gives "Name Url" for such a Name and *)
(* Url; else the line without its leading hyphens and spaces.  Name is     *)
(* non-empty without "]", Addr and Url non-empty without ")".              *)
(***************************************************************************)
Without(t, c) == t # "" /\ NoneIs(t, 1, Len(t), c)

\* the ways to read line as "- [Name](mailto:Addr)Rest"
ContactForms(line) ==
    IF ~ startswith(line, "- [") THEN {}
    ELSE { f \in UNION { { [ name |-> SubSeq(line, 4, j),
                             addr |-> SubSeq(line, j + 10, k),
                             rest |-> From(line, k + 2) ]
                           : k \in (j + 10)..Len(line) }
                         : j \in { j \in 4..Len(line) : LitAt(line, j, "]") } } :
             /\ Without(f.name, "]")
             /\ Without(f.addr, ")")
             /\ line = "- [" \o f.name \o "](mailto:" \o f.addr \o ")" \o f.rest }

\* the ways to find "[Name](Url)" in line
LinkForms(line) ==
    { f \in UNION { UNION { { [ at   |-> i,
                                name |-> SubSeq(line, i + 1, j),
                                url  |-> SubSeq(line, j + 3, k) ]
                              : k \in { k \in (j + 3)..Len(line) : LitAt(line, k, ")") } }
                            : j \in { j \in (i + 1)..Len(line) : LitAt(line, j, "]") } }
                    : i \in { i \in 1..Len(line) : Char(line, i) = "[" } } :
        /\ Without(f.name, "]")
        /\ Without(f.url, ")")
        /\ LitAt(line, f.at - 1, "[" \o f.name \o "](" \o f.url \o ")") }

\* line from its first character that is neither a hyphen nor a space
Stripped(line) ==
    LET keep == { i \in 1..Len(line) : Char(line, i) \notin {"-", " "} } IN
    IF keep = {} THEN "" ELSE From(line, Min(keep))

Normalized(line, out) ==
    IF ContactForms(line) # {}
    THEN \A f \in ContactForms(line) :
             out = f.name \o " <" \o f.addr \o ">" \o f.rest
    ELSE IF LinkForms(line) # {}
    THEN \E f \in LinkForms(line) : out = f.name \o " " \o f.url
    ELSE out = Stripped(line)

\* the index of the line the loop of process 1 has just handled, 0 if none
Handled ==
    IF pr[1].pc \in {"loop", "open_dst"} /\ SourceThere
    THEN Len(readlines(SourceText)) - Len(pr[1].lines)
    ELSE 0

LastEntry == LET list == pr[1].contributors[pr[1].section[1]] IN list[Len(list)]

C7_Normalization ==
    /\ Handled > 0 /\ IsBullet(DocLines(SourceText)[Handled])
       => Normalized(DocLines(SourceText)[Handled], LastEntry)
    /\ parseMarkdown("- [Name](mailto:a@b.c) extra text") = "Name <a@b.c> extra text"
    /\ parseMarkdown("- Just text") = "Just text"

\* the contact example of the claim has been appended
C7_Witness ==
    /\ Handled > 0
    /\ DocLines(SourceText)[Handled] = "- [Name](mailto:a@b.c) extra text"
    /\ LastEntry = "Name <a@b.c> extra text"

(***************************************************************************)
(* C8.  As claimed: a run whose argument list holds an argument other than *)
(* --check, --diff and --help ends in the invalid-argument error without   *)
(* any file operation.                                                     *)
(***************************************************************************)
Known == {"--check", "--diff", "--help"}

UnknownAt(args) == { i \in DOMAIN args : args[i] \notin Known }

InvalidRunOver(p) == pr[p].pc = "done" /\ UnknownAt(pr[p].args) # {}

C8_AsClaimed ==
    \A p \in Procs :
        InvalidRunOver(p)
        => pr[p].outcome = "ValueError" /\ pr[p].exit = 1 /\ pr[p].io = <<>>

(***************************************************************************)
(* C8, amended.  Such a run makes no file operation; it ends in the        *)
(* invalid-argument error unless --help comes before the first unknown     *)
(* argument, in which case it prints the usage text and exits 0.           *)
(***************************************************************************)
HelpFirst(args) ==
    \E h \in DOMAIN args : args[h] = "--help" /\ h < Min(UnknownAt(args))

C8_InvalidArgument ==
    \A p \in Procs :
        InvalidRunOver(p)
        => /\ pr[p].io = <<>>
           /\ IF HelpFirst(pr[p].args)
              THEN pr[p].outcome = "help" /\ pr[p].exit = 0
              ELSE pr[p].outcome = "ValueError" /\ pr[p].exit = 1

\* an unknown argument after a valid flag: refused before any file operation
C8_Witness ==
    /\ pr[1].pc = "done"
    /\ pr[1].args = <<"--check", "--verbose">>
    /\ pr[1].outcome = "ValueError"
    /\ pr[1].io = <<>>

(***************************************************************************)
(* C9.  After the loop has handled the first n lines of a document, none   *)
(* of them a bullet line before the first heading, the mapping has exactly *)
(* one key per distinct heading line among them, each key's list is the    *)
(* normalized bullet lines between the last occurrence of that heading and *)
(* the next heading, in document order, and the current section is the     *)
(* last heading; so empty lines and lines starting with "--" change        *)
(* neither.  With n the length of the document this is the mapping after   *)
(* parsing.                                                                *)
(***************************************************************************)
InLoop == pr[1].pc \in {"loop", "open_dst"} /\ SourceThere

ParseOver == pr[1].pc = "open_dst" /\ SourceThere

C9_SectionMapping ==
    InLoop =>
        LET L == SubSeq(DocLines(SourceText), 1, Handled) IN
        NoEarlyBullet(L) =>
            /\ pr[1].contributors = ExpectedSections(L)
            /\ pr[1].section = IF HeadingsOf(L) = {} THEN <<>>
                               ELSE <<L[Max(HeadingsOf(L))]>>

\* a heading came twice and the entry under its first occurrence is gone
C9_Witness ==
    /\ ParseOver
    /\ DocLines(SourceText) = <<"Contributors", "- Bob", "---", "Contributors">>
    /\ pr[1].contributors = ("Contributors" :> <<>>)

(***************************************************************************)
(* C10.  A run that reached the hash comparison ends with the staging path *)
(* absent, in exactly one of the four outcomes, having made exactly one    *)
(* terminal file operation: the unlink in the no-changes, diff and check    *)
(* outcomes, the rename onto the target in the apply outcome.              *)
(***************************************************************************)
C10_StagingGone ==
    \A p \in Procs :
        Compared(p) =>
            /\ dir[new_fname] = 0
            /\ pr[p].outcome \in {"no changes", "diff", "check", "apply"}
            /\ Cardinality(TerminalOps(p)) = 1
            /\ pr[p].io[Len(pr[p].io)] =
                   IF pr[p].outcome = "apply" THEN "rename" ELSE "unlink"

\* the diff outcome, the staging file deleted
C10_Witness ==
    /\ Compared(1)
    /\ pr[1].outcome = "diff"
    /\ pr[1].io[Len(pr[1].io)] = "unlink"
    /\ dir[new_fname] = 0

====
